---------------------------- MODULE Spec2Model ----------------------------
(***************************************************************************)
(* Model of the EBA rule-based pipeline of esg_credit_risk_tool:           *)
(*   src/src/eba_config.py   RISK_WEIGHTS, RISK_LEVELS, SCENARIOS          *)
(*   src/src/scenario.py     EBAStressEngine.apply_scenario                *)
(*   src/src/model.py        EBACreditModel.calculate_risk,                *)
(*                           EBACreditModel.estimate_capital               *)
(*   src/app/streamlit_app.py   the dashboard's processing of a selection  *)
(*                                                                         *)
(* A DataFrame is [n |-> number of rows, col |-> [column name -> Series]], *)
(* a Series being a function 1..n -> cell.  Numeric cells are extended     *)
(* rationals [n |-> numerator, d |-> denominator] in lowest terms with     *)
(* d >= 0: d > 0 is a finite value, 1/0 is inf, -1/0 is -inf and 0/0 is    *)
(* NaN, with the IEEE-754 rules pandas follows for them.  Finite values    *)
(* are exact: the rounding of binary floating point is not modelled.       *)
(***************************************************************************)
EXTENDS Integers, Sequences, FiniteSets, TLC

(***************************************************************************)
(* Bounds of the model.                                                    *)
(***************************************************************************)
MaxRows == 2

(***************************************************************************)
(* Extended rational arithmetic (Python / numpy float semantics).          *)
(***************************************************************************)
Abs(x) == IF x < 0 THEN -x ELSE x

Sign(x) == IF x > 0 THEN 1 ELSE IF x < 0 THEN -1 ELSE 0

RECURSIVE GCD(_, _)
GCD(a, b) == IF b = 0 THEN a ELSE GCD(b, a % b)

\* n/d in lowest terms, d >= 0; x/0 is inf, -inf or NaN by the sign of x
Q(n, d) ==
    IF d = 0 THEN [n |-> Sign(n), d |-> 0]
    ELSE LET g == GCD(Abs(n), d) IN [n |-> n \div g, d |-> d \div g]

R(i) == [n |-> i, d |-> 1]

NaN == [n |-> 0, d |-> 0]

IsNaN(a) == a.n = 0 /\ a.d = 0

Mul(a, b) == Q(a.n * b.n, a.d * b.d)

Recip(a) == IF a.n >= 0 THEN Q(a.d, a.n) ELSE Q(-a.d, -a.n)

Div(a, b) == Mul(a, Recip(b))

Neg(a) == [n |-> -a.n, d |-> a.d]

Add(a, b) ==
    IF IsNaN(a) \/ IsNaN(b) THEN NaN
    ELSE IF a.d = 0 /\ b.d = 0 THEN (IF a.n = b.n THEN a ELSE NaN)
    ELSE IF a.d = 0 THEN a
    ELSE IF b.d = 0 THEN b
    ELSE Q(a.n * b.d + b.n * a.d, a.d * b.d)

Sub(a, b) == Add(a, Neg(b))

\* a < b; every comparison with NaN is false
Lt(a, b) ==
    /\ ~IsNaN(a)
    /\ ~IsNaN(b)
    /\ IF a.d = 0 /\ b.d = 0 THEN a.n < b.n ELSE a.n * b.d < b.n * a.d

Gt(a, b) == Lt(b, a)

Ge(a, b) == ~IsNaN(a) /\ ~IsNaN(b) /\ ~Lt(a, b)

Le(a, b) == Ge(b, a)

\* Series.clip(lower, upper): NaN stays NaN
Clip(x, lower, upper) ==
    IF Lt(x, lower) THEN lower ELSE IF Gt(x, upper) THEN upper ELSE x

(***************************************************************************)
(* Configuration (eba_config.py).                                          *)
(***************************************************************************)
\* faulty variant: the weights of EmissionsTrend and SocialScore are swapped
RISK_WEIGHTS_Swapped ==
    ("Debt/Equity" :> Q(35, 100)) @@
    [ InterestCoverage |-> Q(25, 100),
      CarbonImpact     |-> Q(20, 100),
      EmissionsTrend   |-> Q(5, 100),
      SocialScore      |-> Q(10, 100),
      GovernanceScore  |-> Q(5, 100) ]

RISK_WEIGHTS ==
    ("Debt/Equity" :> Q(35, 100)) @@
    [ InterestCoverage |-> Q(25, 100),
      CarbonImpact     |-> Q(20, 100),
      EmissionsTrend   |-> Q(10, 100),
      SocialScore      |-> Q(5, 100),
      GovernanceScore  |-> Q(5, 100) ]

RISK_LEVELS == [ high_risk |-> Q(4, 10), high_emitter |-> R(500) ]

\* the keys of SCENARIOS in insertion order: list(self.scenarios.keys())
ScenarioKeys == << "Normal", "Transition Stress", "Physical Stress" >>

SCENARIOS ==
    [ k \in {"Normal", "Transition Stress", "Physical Stress"} |->
        CASE k = "Normal" ->
               [carbon_multiplier |-> R(1), coverage_multiplier |-> R(1)]
          [] k = "Transition Stress" ->
               [carbon_multiplier |-> Q(3, 2), coverage_multiplier |-> R(1)]
          [] k = "Physical Stress" ->
               [carbon_multiplier |-> R(1), coverage_multiplier |-> Q(9, 10)] ]

(***************************************************************************)
(* DataFrame operations (pandas).                                          *)
(***************************************************************************)
\* df.columns
Columns(df) == DOMAIN df.col

Rows(df) == 1 .. df.n

\* Series * m, Series + k, Series - k, k - Series, Series / m, Series.clip
MulSeries(series, m) == [i \in DOMAIN series |-> Mul(series[i], m)]

AddSeries(series, k) == [i \in DOMAIN series |-> Add(series[i], k)]

SubSeries(series, k) == [i \in DOMAIN series |-> Sub(series[i], k)]

RSubSeries(k, series) == [i \in DOMAIN series |-> Sub(k, series[i])]

DivSeries(series, m) == [i \in DOMAIN series |-> Div(series[i], m)]

RDivSeries(k, series) == [i \in DOMAIN series |-> Div(k, series[i])]

ClipSeries(series, lower, upper) ==
    [i \in DOMAIN series |-> Clip(series[i], lower, upper)]

\* df[c] *= m
MulCol(df, c, m) == [df EXCEPT !.col[c] = MulSeries(@, m)]

\* df[c] += k
AddCol(df, c, k) == [df EXCEPT !.col[c] = AddSeries(@, k)]

\* df[c] -= k
SubCol(df, c, k) == [df EXCEPT !.col[c] = SubSeries(@, k)]

\* df[c] = df[c].clip(lower, upper)
ClipCol(df, c, lower, upper) == [df EXCEPT !.col[c] = ClipSeries(@, lower, upper)]

\* faulty variant: reports every needed column as soon as one is missing
MissingFrom_All(df, needed) ==
    IF \E k \in DOMAIN needed : needed[k] \notin Columns(df) THEN needed ELSE << >>

\* [col for col in needed if col not in df.columns]
MissingFrom(df, needed) == SelectSeq(needed, LAMBDA c : c \notin Columns(df))

Range(seq) == { seq[i] : i \in DOMAIN seq }

\* outcome of a call: a returned DataFrame or a raised ValueError
Return(df) == [kind |-> "df", df |-> << df >>, error |-> << >>]

Raise(prefix, names) ==
    [kind |-> "error", df |-> << >>,
     error |-> << [type |-> "ValueError", prefix |-> prefix, names |-> names] >>]

(***************************************************************************)
(* EBAStressEngine.apply_scenario (scenario.py).                           *)
(***************************************************************************)
\* faulty variant: the coverage multiplier also scales TotalAssets
Multipliers_Assets(df, scenario_name) ==
    LET carbon_mult == SCENARIOS[scenario_name].carbon_multiplier
        coverage_mult == SCENARIOS[scenario_name].coverage_multiplier
        d1 == MulCol(df, "CarbonImpact", carbon_mult)
        d2 == MulCol(d1, "InterestCoverage", coverage_mult)
    IN  MulCol(d2, "TotalAssets", coverage_mult)

\* lines 32-37: the scenario's multipliers
Multipliers(df, scenario_name) ==
    LET carbon_mult == SCENARIOS[scenario_name].carbon_multiplier
        coverage_mult == SCENARIOS[scenario_name].coverage_multiplier
        d1 == MulCol(df, "CarbonImpact", carbon_mult)
    IN  MulCol(d1, "InterestCoverage", coverage_mult)

\* faulty variant: the elif is an else, so 'Normal' gets the physical shifts
Shifts_ElseBranch(df, scenario_name) ==
    IF scenario_name = "Transition Stress"
    THEN SubCol(AddCol(df, "EmissionsTrend", R(10)),
           "GovernanceScore", R(5))
    ELSE SubCol(SubCol(df, "SocialScore", R(10)),
           "EmissionsTrend", R(5))

\* faulty variant: 'Transition Stress' raises GovernanceScore by 5
Shifts_GovUp(df, scenario_name) ==
    IF scenario_name = "Transition Stress"
    THEN AddCol(AddCol(df, "EmissionsTrend", R(10)),
           "GovernanceScore", R(5))
    ELSE IF scenario_name = "Physical Stress"
    THEN SubCol(SubCol(df, "SocialScore", R(10)),
           "EmissionsTrend", R(5))
    ELSE df

\* lines 38-43: the scenario's fixed shifts
Shifts(df, scenario_name) ==
    IF scenario_name = "Transition Stress"
    THEN SubCol(AddCol(df, "EmissionsTrend", R(10)),
           "GovernanceScore", R(5))
    ELSE IF scenario_name = "Physical Stress"
    THEN SubCol(SubCol(df, "SocialScore", R(10)),
           "EmissionsTrend", R(5))
    ELSE df

\* faulty variant: EmissionsTrend is left uncapped
CapESG_NoEmissions(df) ==
    LET d1 == ClipCol(df, "SocialScore", R(0), R(100))
    IN  ClipCol(d1, "GovernanceScore", R(0), R(100))

\* lines 45-48: cap ESG scores
CapESG(df) ==
    LET d1 == ClipCol(df, "SocialScore", R(0), R(100))
        d2 == ClipCol(d1, "GovernanceScore", R(0), R(100))
    IN  ClipCol(d2, "EmissionsTrend", R(-50), R(50))

\* faulty variant: the flag is raised at the limit, not above it
FlagsAndAudit_AtLeast(df, scenario_name) ==
    [df EXCEPT !.col =
        ("Scenario" :> [i \in DOMAIN @["CarbonImpact"] |-> scenario_name]) @@
        ("HighEmitter" :>
            [i \in DOMAIN @["CarbonImpact"] |->
                Ge(@["CarbonImpact"][i], RISK_LEVELS.high_emitter)]) @@ @]

\* lines 50-52: flags and audit; an assigned column replaces one of that
\* name or is appended
FlagsAndAudit(df, scenario_name) ==
    [df EXCEPT !.col =
        ("Scenario" :> [i \in DOMAIN @["CarbonImpact"] |-> scenario_name]) @@
        ("HighEmitter" :>
            [i \in DOMAIN @["CarbonImpact"] |->
                Gt(@["CarbonImpact"][i], RISK_LEVELS.high_emitter)]) @@ @]

\* lines 32-52, on the engine's own copy of the frame
Transform(df, scenario_name) ==
    FlagsAndAudit(CapESG(Shifts(Multipliers(df, scenario_name), scenario_name)),
                  scenario_name)

ScenarioNeeded ==
    << "CarbonImpact", "InterestCoverage", "EmissionsTrend",
       "SocialScore", "GovernanceScore" >>

\* faulty variant: no df.copy(), the caller's frame is transformed and returned
apply_scenario_nocopy(df, scenario_name) ==
    IF scenario_name \notin DOMAIN SCENARIOS
    THEN [arg |-> df, out |-> Raise("Pick: ", ScenarioKeys)]
    ELSE LET missing == MissingFrom(df, ScenarioNeeded) IN
         IF missing # << >>
         THEN [arg |-> df, out |-> Raise("Need: ", missing)]
         ELSE [arg |-> Transform(df, scenario_name),
               out |-> Return(Transform(df, scenario_name))]

\* faulty variant: the copy is taken after the multipliers were applied
apply_scenario_latecopy(df, scenario_name) ==
    IF scenario_name \notin DOMAIN SCENARIOS
    THEN [arg |-> df, out |-> Raise("Pick: ", ScenarioKeys)]
    ELSE LET missing == MissingFrom(df, ScenarioNeeded) IN
         IF missing # << >>
         THEN [arg |-> df, out |-> Raise("Need: ", missing)]
         ELSE [arg |-> Multipliers(df, scenario_name),
               out |-> Return(Transform(df, scenario_name))]

\* faulty variant: the columns are validated before the scenario name
apply_scenario_colsfirst(df, scenario_name) ==
    LET missing == MissingFrom(df, ScenarioNeeded) IN
    IF missing # << >>
    THEN [arg |-> df, out |-> Raise("Need: ", missing)]
    ELSE IF scenario_name \notin DOMAIN SCENARIOS
    THEN [arg |-> df, out |-> Raise("Pick: ", ScenarioKeys)]
    ELSE [arg |-> df, out |-> Return(Transform(df, scenario_name))]

\* arg: the caller's frame after the call; out: what the call returns or raises
apply_scenario(df, scenario_name) ==
    IF scenario_name \notin DOMAIN SCENARIOS
    THEN [arg |-> df, out |-> Raise("Pick: ", ScenarioKeys)]
    ELSE LET missing == MissingFrom(df, ScenarioNeeded) IN
         IF missing # << >>
         THEN [arg |-> df, out |-> Raise("Need: ", missing)]
         ELSE [arg |-> df, out |-> Return(Transform(df, scenario_name))]

(***************************************************************************)
(* EBACreditModel.calculate_risk (model.py).                               *)
(***************************************************************************)
\* Series.max(): NaN is skipped, and is the result when nothing is left
SeriesMax(series) ==
    LET vals == { v \in Range(series) : ~IsNaN(v) }
    IN  IF vals = {} THEN NaN
        ELSE CHOOSE m \in vals : \A v \in vals : Ge(m, v)

\* faulty variant: CarbonNorm is divided by the maximum of Debt/Equity
Normalize_DebtBase(df) ==
    LET d1 == [df EXCEPT !.col =
                ("DebtNorm" :>
                    DivSeries(@["Debt/Equity"], SeriesMax(@["Debt/Equity"]))) @@ @]
        d2 == [d1 EXCEPT !.col =
                ("InterestNorm" :>
                    DivSeries(RDivSeries(R(1), @["InterestCoverage"]),
                              SeriesMax(RDivSeries(R(1), @["InterestCoverage"])))) @@ @]
        d3 == [d2 EXCEPT !.col =
                ("CarbonNorm" :>
                    DivSeries(@["CarbonImpact"], SeriesMax(@["Debt/Equity"]))) @@ @]
        d4 == [d3 EXCEPT !.col =
                ("EmTrendNorm" :>
                    DivSeries(AddSeries(@["EmissionsTrend"], R(50)), R(100))) @@ @]
        d5 == [d4 EXCEPT !.col =
                ("SocialNorm" :>
                    DivSeries(RSubSeries(R(100), @["SocialScore"]), R(100))) @@ @]
    IN  [d5 EXCEPT !.col =
                ("GovNorm" :>
                    DivSeries(RSubSeries(R(100), @["GovernanceScore"]), R(100))) @@ @]

\* faulty variant: CarbonNorm is divided by a fixed reference of 1000
Normalize_FixedBase(df) ==
    LET d1 == [df EXCEPT !.col =
                ("DebtNorm" :>
                    DivSeries(@["Debt/Equity"], SeriesMax(@["Debt/Equity"]))) @@ @]
        d2 == [d1 EXCEPT !.col =
                ("InterestNorm" :>
                    DivSeries(RDivSeries(R(1), @["InterestCoverage"]),
                              SeriesMax(RDivSeries(R(1), @["InterestCoverage"])))) @@ @]
        d3 == [d2 EXCEPT !.col =
                ("CarbonNorm" :> DivSeries(@["CarbonImpact"], R(1000))) @@ @]
        d4 == [d3 EXCEPT !.col =
                ("EmTrendNorm" :>
                    DivSeries(AddSeries(@["EmissionsTrend"], R(50)), R(100))) @@ @]
        d5 == [d4 EXCEPT !.col =
                ("SocialNorm" :>
                    DivSeries(RSubSeries(R(100), @["SocialScore"]), R(100))) @@ @]
    IN  [d5 EXCEPT !.col =
                ("GovNorm" :>
                    DivSeries(RSubSeries(R(100), @["GovernanceScore"]), R(100))) @@ @]

\* lines 32-38: normalize components
Normalize(df) ==
    LET d1 == [df EXCEPT !.col =
                ("DebtNorm" :>
                    DivSeries(@["Debt/Equity"], SeriesMax(@["Debt/Equity"]))) @@ @]
        d2 == [d1 EXCEPT !.col =
                ("InterestNorm" :>
                    DivSeries(RDivSeries(R(1), @["InterestCoverage"]),
                              SeriesMax(RDivSeries(R(1), @["InterestCoverage"])))) @@ @]
        d3 == [d2 EXCEPT !.col =
                ("CarbonNorm" :>
                    DivSeries(@["CarbonImpact"], SeriesMax(@["CarbonImpact"]))) @@ @]
        d4 == [d3 EXCEPT !.col =
                ("EmTrendNorm" :>
                    DivSeries(AddSeries(@["EmissionsTrend"], R(50)), R(100))) @@ @]
        d5 == [d4 EXCEPT !.col =
                ("SocialNorm" :>
                    DivSeries(RSubSeries(R(100), @["SocialScore"]), R(100))) @@ @]
    IN  [d5 EXCEPT !.col =
                ("GovNorm" :>
                    DivSeries(RSubSeries(R(100), @["GovernanceScore"]), R(100))) @@ @]

\* faulty variant: the governance term is left out of the sum
RiskScoreOf_NoGov(col, i) ==
    Add(Add(Add(Add(
        Mul(RISK_WEIGHTS["Debt/Equity"], col["DebtNorm"][i]),
        Mul(RISK_WEIGHTS["InterestCoverage"], col["InterestNorm"][i])),
        Mul(RISK_WEIGHTS["CarbonImpact"], col["CarbonNorm"][i])),
        Mul(RISK_WEIGHTS["EmissionsTrend"], col["EmTrendNorm"][i])),
        Mul(RISK_WEIGHTS["SocialScore"], col["SocialNorm"][i]))

\* lines 41-48: weighted sum, left to right, for row i of the columns col
RiskScoreOf(col, i) ==
    Add(Add(Add(Add(Add(
        Mul(RISK_WEIGHTS["Debt/Equity"], col["DebtNorm"][i]),
        Mul(RISK_WEIGHTS["InterestCoverage"], col["InterestNorm"][i])),
        Mul(RISK_WEIGHTS["CarbonImpact"], col["CarbonNorm"][i])),
        Mul(RISK_WEIGHTS["EmissionsTrend"], col["EmTrendNorm"][i])),
        Mul(RISK_WEIGHTS["SocialScore"], col["SocialNorm"][i])),
        Mul(RISK_WEIGHTS["GovernanceScore"], col["GovNorm"][i]))

\* faulty variant: > instead of >=
RiskLevelOf_Strict(x) == IF Gt(x, RISK_LEVELS.high_risk) THEN "High Risk" ELSE "Safe"

\* lines 51-53: lambda x: 'High Risk' if x >= self.high_risk_limit else 'Safe'
RiskLevelOf(x) == IF Ge(x, RISK_LEVELS.high_risk) THEN "High Risk" ELSE "Safe"

\* lines 56-61: component contributions
Contributions(df) ==
    [df EXCEPT !.col =
        ("GovImpact" :> MulSeries(@["GovNorm"], RISK_WEIGHTS["GovernanceScore"])) @@
        ("SocialImpact" :> MulSeries(@["SocialNorm"], RISK_WEIGHTS["SocialScore"])) @@
        ("EmTrendImpact" :> MulSeries(@["EmTrendNorm"], RISK_WEIGHTS["EmissionsTrend"])) @@
        ("CarbonImpactScore" :> MulSeries(@["CarbonNorm"], RISK_WEIGHTS["CarbonImpact"])) @@
        ("InterestImpact" :>
            MulSeries(@["InterestNorm"], RISK_WEIGHTS["InterestCoverage"])) @@
        ("DebtImpact" :> MulSeries(@["DebtNorm"], RISK_WEIGHTS["Debt/Equity"])) @@ @]

\* lines 32-61: every df[...] = ... assignment of the method
Scored(df) ==
    LET d1 == [Normalize(df) EXCEPT !.col =
                ("RiskScore" :> [i \in DOMAIN @["DebtNorm"] |-> RiskScoreOf(@, i)]) @@ @]
        d2 == [d1 EXCEPT !.col =
                ("RiskLevel" :>
                    [i \in DOMAIN @["RiskScore"] |-> RiskLevelOf(@["RiskScore"][i])]) @@ @]
    IN  Contributions(d2)

RiskNeeded ==
    << "Debt/Equity", "InterestCoverage", "CarbonImpact",
       "EmissionsTrend", "SocialScore", "GovernanceScore" >>

\* the method assigns into the frame it was given and returns that frame
calculate_risk(df) ==
    LET missing == MissingFrom(df, RiskNeeded) IN
    IF missing # << >>
    THEN [arg |-> df, out |-> Raise("Need these: ", missing)]
    ELSE LET scored == Scored(df) IN [arg |-> scored, out |-> Return(scored)]

(***************************************************************************)
(* EBACreditModel.estimate_capital (model.py).                             *)
(***************************************************************************)
\* outcome of a call that returns a Series
ReturnSeries(series) == [kind |-> "series", series |-> series, error |-> << >>]

\* df[name] on a frame without that column
RaiseKeyError(name) ==
    [kind |-> "error", df |-> << >>,
     error |-> << [type |-> "KeyError", prefix |-> "", names |-> << name >>] >>]

\* faulty variant: the loss rate of the statistical model, 0.45
estimate_capital_rate45(df) ==
    IF "TotalAssets" \notin Columns(df)
    THEN [arg |-> df, out |-> Raise("Missing ", << "TotalAssets" >>)]
    ELSE IF "RiskScore" \notin Columns(df)
    THEN [arg |-> df, out |-> RaiseKeyError("RiskScore")]
    ELSE [arg |-> df,
          out |-> ReturnSeries(MulSeries(
                      [i \in DOMAIN df.col["RiskScore"] |->
                          Mul(df.col["RiskScore"][i], df.col["TotalAssets"][i])],
                      Q(45, 100)))]

\* lines 65-75: raise ValueError("Missing TotalAssets"), or
\* df['RiskScore'] * df['TotalAssets'] * 0.5; the frame is only read
estimate_capital(df) ==
    IF "TotalAssets" \notin Columns(df)
    THEN [arg |-> df, out |-> Raise("Missing ", << "TotalAssets" >>)]
    ELSE IF "RiskScore" \notin Columns(df)
    THEN [arg |-> df, out |-> RaiseKeyError("RiskScore")]
    ELSE [arg |-> df,
          out |-> ReturnSeries(MulSeries(
                      [i \in DOMAIN df.col["RiskScore"] |->
                          Mul(df.col["RiskScore"][i], df.col["TotalAssets"][i])],
                      Q(1, 2)))]

(***************************************************************************)
(* Input datasets: the column contract of data_pipeline.build_dataset,     *)
(* rows drawn from a few firm profiles, some columns possibly absent.      *)
(***************************************************************************)
DAX_TICKERS ==
    << "SAP", "ALV.DE", "DTE.DE", "BAS.DE", "BAYN.DE",
       "BMW.DE", "DAI.DE", "SIE.DE", "ADS.DE", "MUV2.DE" >>

\* the columns of a record built by build_dataset
RecordColumns ==
    { "Ticker", "Debt/Equity", "InterestCoverage", "CarbonImpact",
      "EmissionsTrend", "SocialScore", "GovernanceScore", "TotalAssets",
      "Industry" }

Firm(de, ic, ci, et, ss, gs, ta, ind) ==
    ("Debt/Equity" :> de) @@
    [ InterestCoverage |-> ic, CarbonImpact |-> ci, EmissionsTrend |-> et,
      SocialScore |-> ss, GovernanceScore |-> gs, TotalAssets |-> ta,
      Industry |-> ind ]

\* 1: the firm of the worked example; 2: the all-zero record build_dataset
\* writes for a ticker without manual data; 3: ESG values outside their
\* domains and a negative coverage; 4: a firm that scores exactly 0.4 in a
\* batch with firm 1 and sits on the upper EmissionsTrend bound
Firms ==
    << Firm(R(1), R(5), R(500), R(0), R(50), R(80), R(100), "Automotive"),
       Firm(R(0), R(0), R(0), R(0), R(0), R(0), R(0), "Unknown"),
       Firm(R(2), R(-2), R(600), R(-60), R(120), R(-10), R(300), "Chemicals"),
       Firm(R(0), R(10), R(400), R(50), R(100), R(70), R(200), "Financials") >>

\* columns that an input file may lack
Droppable == { "CarbonImpact", "GovernanceScore", "Debt/Equity" }

\* the frame whose row i is profile pick[i], with the given columns
Frame(pick, cols) ==
    [ n |-> Len(pick),
      col |-> [ c \in cols |->
                 [ i \in 1 .. Len(pick) |->
                     IF c = "Ticker" THEN DAX_TICKERS[i] ELSE Firms[pick[i]][c] ] ] ]

InputFrames ==
    { Frame(pick, RecordColumns \ drop) :
        pick \in UNION { [1 .. n -> 1 .. Len(Firms)] : n \in 1 .. MaxRows },
        drop \in SUBSET Droppable }

\* scenario names a caller may pass; the last one is not registered
ScenarioNames ==
    { "Normal", "Transition Stress", "Physical Stress", "Hot House World" }

(***************************************************************************)
(* The state: the caller's frames and the outcome of the last call.        *)
(***************************************************************************)
VARIABLES
    base,         \* the loaded dataset (base_df)
    scenario_df,  \* << >> or << the frame last returned by apply_scenario >>
    ret,          \* outcome of the last call
    last,         \* the last call: operation, arguments, argument as passed
    history,      \* the first frame apply_scenario returned for each scenario,
                  \* in call order, since base last changed
    normal_risk   \* << >> or << the scored 'Normal' frame of the dashboard >>

vars == << base, scenario_df, ret, last, history, normal_risk >>

Init ==
    /\ base \in InputFrames
    /\ scenario_df = << >>
    /\ ret = [kind |-> "none", df |-> << >>, error |-> << >>]
    /\ last = [op |-> "none", target |-> "none", scenario_name |-> "none",
               before |-> << >>]
    /\ history = << >>
    /\ normal_risk = << >>

\* scenario_df = engine.apply_scenario(base_df, scenario_name)
ApplyScenario(scenario_name) ==
    \E r \in { apply_scenario(base, scenario_name) } :
    /\ base' = r.arg
    /\ ret' = r.out
    /\ scenario_df' = IF r.out.kind = "df" THEN r.out.df ELSE scenario_df
    /\ last' = [op |-> "apply_scenario", target |-> "base",
                scenario_name |-> scenario_name, before |-> << base >>]
    /\ history' =
          IF /\ r.out.kind = "df"
             /\ \A k \in DOMAIN history : history[k].scenario_name # scenario_name
          THEN Append(history, [scenario_name |-> scenario_name, df |-> r.out.df[1]])
          ELSE history
    /\ UNCHANGED normal_risk

\* model.calculate_risk(df), df being the caller's base or scenario frame
CalculateRisk(target) ==
    /\ target = "scenario_df" => scenario_df # << >>
    /\ \E df \in { IF target = "base" THEN base ELSE scenario_df[1] } :
       \E r \in { calculate_risk(df) } :
           /\ base' = IF target = "base" THEN r.arg ELSE base
           /\ scenario_df' = IF target = "scenario_df" THEN << r.arg >> ELSE scenario_df
           /\ ret' = r.out
           /\ last' = [op |-> "calculate_risk", target |-> target,
                       scenario_name |-> "none", before |-> << df >>]
           /\ history' = IF target = "base" /\ r.arg # base THEN << >> ELSE history
           /\ UNCHANGED normal_risk

Next ==
    \/ \E scenario_name \in ScenarioNames : ApplyScenario(scenario_name)
    \/ \E target \in {"base", "scenario_df"} : CalculateRisk(target)

Spec == Init /\ [][Next]_vars

(***************************************************************************)

(***************************************************************************)
(* estimate_capital on its own: the frames it is given are the frames      *)
(* calculate_risk leaves behind (scored, or unscored when it raised), with *)
(* TotalAssets absent or drawn from AssetValues.                           *)
(***************************************************************************)
\* 0 is what build_dataset writes when a firm has no TotalAssets entry
AssetValues == { R(0), R(100) }

CapitalFrames ==
    LET frames == { calculate_risk(f).arg : f \in InputFrames }
    IN  UNION { { [f EXCEPT !.col = ("TotalAssets" :> assets) @@ @] :
                    assets \in [1 .. f.n -> AssetValues] } \cup
                { [f EXCEPT !.col = [c \in DOMAIN @ \ {"TotalAssets"} |-> @[c]]] } :
                f \in frames }

InitCapital ==
    /\ base \in CapitalFrames
    /\ scenario_df = << >>
    /\ ret = [kind |-> "none", df |-> << >>, error |-> << >>]
    /\ last = [op |-> "none", target |-> "none", scenario_name |-> "none",
               before |-> << >>]
    /\ history = << >>
    /\ normal_risk = << >>

\* model.estimate_capital(df)
EstimateCapital ==
    \E r \in { estimate_capital(base) } :
    /\ base' = r.arg
    /\ ret' = r.out
    /\ last' = [op |-> "estimate_capital", target |-> "base",
                scenario_name |-> "none", before |-> << base >>]
    /\ UNCHANGED << scenario_df, history, normal_risk >>

NextCapital == EstimateCapital

SpecCapital == InitCapital /\ [][NextCapital]_vars

(***************************************************************************)
(* The dashboard (streamlit_app.py): the script body runs once per         *)
(* scenario selection.  load_data stops the script unless its required     *)
(* columns are present; Industry is not among them.  load_data is cached:  *)
(* the frame it returned is the one every run starts from.                 *)
(***************************************************************************)
DashboardFrames ==
    { Frame(pick, RecordColumns \ drop) :
        pick \in UNION { [1 .. n -> 1 .. Len(Firms)] : n \in 1 .. MaxRows },
        drop \in SUBSET { "Industry" } }

InitDashboard ==
    /\ base \in DashboardFrames
    /\ scenario_df = << >>
    /\ ret = [kind |-> "none", df |-> << >>, error |-> << >>]
    /\ last = [op |-> "none", target |-> "none", scenario_name |-> "none",
               before |-> << >>]
    /\ history = << >>
    /\ normal_risk = << >>

\* lines 70-75 for the selected scenario.  normal_risk is normal_df and
\* risk_df is scenario_df, since calculate_risk returns the frame it was
\* given; an exception ends the run with what was assigned so far
Dashboard(scenario) ==
    \E n \in { apply_scenario(base, "Normal") } :
    \E nr \in { IF n.out.kind = "df" THEN calculate_risk(n.out.df[1])
                ELSE [arg |-> << >>, out |-> n.out] } :
    \E s \in { IF nr.out.kind = "df" THEN apply_scenario(n.arg, scenario)
               ELSE [arg |-> n.arg, out |-> nr.out] } :
    \E r \in { IF s.out.kind = "df" THEN calculate_risk(s.out.df[1])
               ELSE [arg |-> << >>, out |-> s.out] } :
    \E c \in { IF r.out.kind = "df" THEN estimate_capital(r.arg)
               ELSE [arg |-> << >>, out |-> r.out] } :
        /\ base' = s.arg
        /\ normal_risk' = IF nr.out.kind = "df" THEN << nr.arg >> ELSE << >>
        /\ scenario_df' =
              IF c.out.kind = "series"
              THEN << [c.arg EXCEPT !.col =
                         ("RiskChange" :>
                             [i \in DOMAIN @["RiskScore"] |->
                                 Sub(@["RiskScore"][i],
                                     nr.arg.col["RiskScore"][i])]) @@
                         ("StressCapital" :> c.out.series) @@ @] >>
              ELSE IF r.out.kind = "df" THEN << r.arg >>
              ELSE IF s.out.kind = "df" THEN s.out.df
              ELSE << >>
        /\ ret' = c.out
        /\ last' = [op |-> "dashboard", target |-> "base",
                    scenario_name |-> scenario, before |-> << base >>]
        /\ UNCHANGED history

\* st.selectbox("Choose Scenario", list(SCENARIOS.keys()))
NextDashboard == \E scenario \in DOMAIN SCENARIOS : Dashboard(scenario)

SpecDashboard == InitDashboard /\ [][NextDashboard]_vars


(* Vocabulary of the properties.                                           *)
(***************************************************************************)
\* the last call was apply_scenario / calculate_risk and it returned a frame
AppliedOK == last.op = "apply_scenario" /\ ret.kind = "df"

ScoredOK == last.op = "calculate_risk" /\ ret.kind = "df"

\* the frame the last call was given, as it was when the call started
In == last.before[1]

\* the frame the last call returned
Out == ret.df[1]

\* the frame the last call was given, as it is now
Target == IF last.target = "base" THEN base ELSE scenario_df[1]

Registered == { "Normal", "Transition Stress", "Physical Stress" }

Adjusted ==
    { "CarbonImpact", "InterestCoverage", "EmissionsTrend",
      "SocialScore", "GovernanceScore" }

Within(x, lower, upper) == Ge(x, lower) /\ Le(x, upper)

(***************************************************************************)
(* C1: apply_scenario never mutates its input: whenever the last call was  *)
(* apply_scenario, whether it returned or raised and whatever calls came   *)
(* before it, the caller's dataset has the columns and the cell values it  *)
(* had when the call started.                                              *)
(***************************************************************************)
C1_InputNotMutated == last.op = "apply_scenario" => base = In

\* a repeated, successful stress application that changed values in its copy
C1_Witness ==
    /\ AppliedOK
    /\ last.scenario_name = "Transition Stress"
    /\ Len(history) >= 2
    /\ Out.col["CarbonImpact"] # In.col["CarbonImpact"]
    /\ base = In

(***************************************************************************)
(* C2: in every frame apply_scenario returns, every row has SocialScore    *)
(* and GovernanceScore in [0,100] and EmissionsTrend in [-50,50], also     *)
(* when the input values were outside those ranges.                        *)
(***************************************************************************)
C2_EsgClamped ==
    AppliedOK =>
        \A i \in Rows(Out) :
            /\ Within(Out.col["SocialScore"][i], R(0), R(100))
            /\ Within(Out.col["GovernanceScore"][i], R(0), R(100))
            /\ Within(Out.col["EmissionsTrend"][i], R(-50), R(50))

\* a row whose three inputs were all out of range, and a row pushed out of
\* range only by the scenario's shift
C2_Witness ==
    /\ AppliedOK
    /\ last.scenario_name = "Transition Stress"
    /\ \E i \in Rows(In) :
          /\ Gt(In.col["SocialScore"][i], R(100))
          /\ Lt(In.col["GovernanceScore"][i], R(0))
          /\ Lt(In.col["EmissionsTrend"][i], R(-50))
    /\ \E i \in Rows(In) :
          /\ In.col["EmissionsTrend"][i] = R(50)
          /\ Out.col["EmissionsTrend"][i] = R(50)

(***************************************************************************)
(* C3: in the frame calculate_risk returns, RiskLevel is 'High Risk'       *)
(* exactly for the rows whose RiskScore is >= 0.4 and 'Safe' for all       *)
(* others; a RiskScore of exactly 0.4 is 'High Risk'.                      *)
(***************************************************************************)
C3_ThresholdConsistency ==
    ScoredOK =>
        \A i \in Rows(Out) :
            LET score == Out.col["RiskScore"][i]
                level == Out.col["RiskLevel"][i]
                atLeast == /\ ~IsNaN(score)
                           /\ IF score.d = 0 THEN score.n > 0
                              ELSE 10 * score.n >= 4 * score.d
            IN  /\ level = "High Risk" <=> atLeast
                /\ level # "High Risk" => level = "Safe"
                /\ score = Q(4, 10) => level = "High Risk"

\* one row scores exactly 0.4 and is High Risk, the other is above it
C3_Witness ==
    /\ ScoredOK
    /\ \E i \in Rows(Out) :
          /\ Out.col["RiskScore"][i] = Q(4, 10)
          /\ Out.col["RiskLevel"][i] = "High Risk"
    /\ \E i \in Rows(Out) : Gt(Out.col["RiskScore"][i], Q(4, 10))

(***************************************************************************)
(* C4: a scoring call never mutates the caller's dataset: after            *)
(* calculate_risk(D) returns, D has the columns and values it had before   *)
(* the call.                                                               *)
(***************************************************************************)
C4_ScoringDoesNotMutate == ScoredOK => Target = In

(***************************************************************************)
(* C5: a call of apply_scenario or calculate_risk on a dataset that lacks  *)
(* required columns fails with the missing-column error, whose list is     *)
(* exactly the set of required columns absent from the input; nothing is   *)
(* returned and the input is left as it was.  C5_MissingColumns states     *)
(* this for apply_scenario calls that name a registered scenario and for   *)
(* all calculate_risk calls; C5_Original states it for every call.         *)
(***************************************************************************)
C5_Required ==
    IF last.op = "apply_scenario"
    THEN { "CarbonImpact", "InterestCoverage", "EmissionsTrend",
           "SocialScore", "GovernanceScore" }
    ELSE { "Debt/Equity", "InterestCoverage", "CarbonImpact",
           "EmissionsTrend", "SocialScore", "GovernanceScore" }

C5_Absent == C5_Required \ Columns(In)

\* the call failed listing exactly the absent columns, before any computation
C5_Fails ==
    /\ ret.kind = "error"
    /\ ret.df = << >>
    /\ ret.error[1].prefix \in { "Need: ", "Need these: " }
    /\ Range(ret.error[1].names) = C5_Absent
    /\ Len(ret.error[1].names) = Cardinality(C5_Absent)
    /\ Target = In

C5_Original ==
    (last.op \in {"apply_scenario", "calculate_risk"} /\ C5_Absent # {})
        => C5_Fails

C5_MissingColumns ==
    ( /\ last.op \in {"apply_scenario", "calculate_risk"}
      /\ last.op = "apply_scenario" => last.scenario_name \in Registered
      /\ C5_Absent # {} )
        => C5_Fails

\* a registered scenario applied to a frame lacking two of the columns
C5_Witness ==
    /\ last.op = "apply_scenario"
    /\ last.scenario_name = "Physical Stress"
    /\ C5_Absent = { "CarbonImpact", "GovernanceScore" }
    /\ ret.kind = "error"
    /\ ret.error[1].names = << "CarbonImpact", "GovernanceScore" >>

(***************************************************************************)
(* C6: apply_scenario fails with the unknown-scenario error exactly when   *)
(* the name is not one of Normal, Transition Stress, Physical Stress; the  *)
(* error enumerates all valid names, nothing is returned and the input is  *)
(* unchanged.                                                              *)
(***************************************************************************)
C6_UnknownScenario ==
    last.op = "apply_scenario" =>
        LET unknownError == ret.kind = "error" /\ ret.error[1].prefix = "Pick: "
        IN  /\ DOMAIN SCENARIOS = Registered
            /\ unknownError <=> last.scenario_name \notin Registered
            /\ unknownError =>
                  /\ Range(ret.error[1].names) = Registered
                  /\ ret.df = << >>
                  /\ base = In

\* an unregistered name, on a frame that also lacks required columns
C6_Witness ==
    /\ last.op = "apply_scenario"
    /\ last.scenario_name = "Hot House World"
    /\ "CarbonImpact" \notin Columns(In)
    /\ ret.kind = "error"
    /\ ret.error[1].names = << "Normal", "Transition Stress", "Physical Stress" >>

(***************************************************************************)
(* C7: scenario identity.  C7_Original: apply_scenario(D, 'Normal')        *)
(* returns every adjusted column with the values it has in D.              *)
(* C7_NormalIdentity: it returns CarbonImpact and InterestCoverage with    *)
(* the values they have in D, and SocialScore, GovernanceScore and         *)
(* EmissionsTrend with the value of D wherever that value lies in the      *)
(* column's domain ([0,100], [0,100], [-50,50]) and with the nearest bound *)
(* of the domain wherever it does not.                                     *)
(***************************************************************************)
C7_Original ==
    (AppliedOK /\ last.scenario_name = "Normal") =>
        \A c \in Adjusted : \A i \in Rows(In) : Out.col[c][i] = In.col[c][i]

C7_Nearest(x, lower, upper) ==
    IF Within(x, lower, upper) THEN x ELSE IF Lt(x, lower) THEN lower ELSE upper

C7_NormalIdentity ==
    (AppliedOK /\ last.scenario_name = "Normal") =>
        \A i \in Rows(In) :
            /\ Out.col["CarbonImpact"][i] = In.col["CarbonImpact"][i]
            /\ Out.col["InterestCoverage"][i] = In.col["InterestCoverage"][i]
            /\ Out.col["SocialScore"][i]
                  = C7_Nearest(In.col["SocialScore"][i], R(0), R(100))
            /\ Out.col["GovernanceScore"][i]
                  = C7_Nearest(In.col["GovernanceScore"][i], R(0), R(100))
            /\ Out.col["EmissionsTrend"][i]
                  = C7_Nearest(In.col["EmissionsTrend"][i], R(-50), R(50))

\* 'Normal' on a frame with one row inside the domains, returned as it was
C7_Witness ==
    /\ AppliedOK
    /\ last.scenario_name = "Normal"
    /\ In.n = 2
    /\ \E i \in Rows(In) :
          /\ Within(In.col["SocialScore"][i], R(1), R(99))
          /\ Within(In.col["GovernanceScore"][i], R(1), R(99))
          /\ Within(In.col["EmissionsTrend"][i], R(-49), R(49))
          /\ \A c \in Adjusted : Out.col[c][i] = In.col[c][i]

(***************************************************************************)
(* C8: the frame apply_scenario returns has the rows of its input, in the  *)
(* same number and with the same Tickers; every input column other than    *)
(* the five adjusted ones has the same value in every row; and the columns *)
(* of the result are those of the input plus HighEmitter and Scenario.     *)
(***************************************************************************)
C8_FramePreserved ==
    AppliedOK =>
        /\ Out.n = In.n
        /\ Out.col["Ticker"] = In.col["Ticker"]
        /\ \A c \in Columns(In) \ Adjusted : Out.col[c] = In.col[c]
        /\ \A c \in { "Ticker", "TotalAssets", "Industry" } :
              c \in Columns(In) /\ Out.col[c] = In.col[c]
        /\ Columns(In) \subseteq Columns(Out)
        /\ Columns(Out) \ Columns(In) = { "HighEmitter", "Scenario" }

\* a two-row frame with Debt/Equity, stressed so that adjusted cells changed
C8_Witness ==
    /\ AppliedOK
    /\ last.scenario_name = "Physical Stress"
    /\ In.n = 2
    /\ "Debt/Equity" \in Columns(In)
    /\ Out.col["InterestCoverage"] # In.col["InterestCoverage"]
    /\ Out.col["SocialScore"] # In.col["SocialScore"]

(***************************************************************************)
(* C9: order independence.  The frame apply_scenario returns for scenario  *)
(* s on dataset D is the frame it returned the first time s was applied to *)
(* D, whatever other scenarios were applied to D before, between or after. *)
(***************************************************************************)
C9_OrderIndependent ==
    AppliedOK =>
        \A k \in DOMAIN history :
            history[k].scenario_name = last.scenario_name => history[k].df = Out

\* s1 applied, then a different s2 with a different result, then s1 again
C9_Witness ==
    /\ AppliedOK
    /\ Len(history) >= 2
    /\ history[1].scenario_name = last.scenario_name
    /\ history[2].scenario_name # last.scenario_name
    /\ history[2].df.col["CarbonImpact"] # history[1].df.col["CarbonImpact"]
    /\ history[1].df = Out

(***************************************************************************)
(* C10: the regulatory-stress transform, row by row: CarbonImpact and      *)
(* InterestCoverage are multiplied by the scenario's multipliers;          *)
(* 'Transition Stress' adds 10 to EmissionsTrend and takes 5 from          *)
(* GovernanceScore, 'Physical Stress' takes 10 from SocialScore and 5 from *)
(* EmissionsTrend, 'Normal' shifts nothing; the three are then clamped to  *)
(* [-50,50], [0,100], [0,100]; HighEmitter is true exactly when the        *)
(* multiplied CarbonImpact is above 500; Scenario is the scenario name.    *)
(* The worked example: 500, 5.0, 0, 80 under 'Transition Stress' gives     *)
(* 750, 5.0, 10, 75 and HighEmitter.                                       *)
(***************************************************************************)
C10_Clamp(x, lower, upper) ==
    IF Lt(x, lower) THEN lower ELSE IF Lt(upper, x) THEN upper ELSE x

C10_Expected(row, s) ==
    LET carbon == IF s = "Transition Stress" THEN Q(15, 10) ELSE R(1)
        coverage == IF s = "Physical Stress" THEN Q(9, 10) ELSE R(1)
        trend == IF s = "Transition Stress" THEN R(10)
                 ELSE IF s = "Physical Stress" THEN R(-5) ELSE R(0)
        social == IF s = "Physical Stress" THEN R(-10) ELSE R(0)
        governance == IF s = "Transition Stress" THEN R(-5) ELSE R(0)
    IN  [ CarbonImpact |-> Mul(row.CarbonImpact, carbon),
          InterestCoverage |-> Mul(row.InterestCoverage, coverage),
          EmissionsTrend |-> C10_Clamp(Add(row.EmissionsTrend, trend), R(-50), R(50)),
          SocialScore |-> C10_Clamp(Add(row.SocialScore, social), R(0), R(100)),
          GovernanceScore |->
              C10_Clamp(Add(row.GovernanceScore, governance), R(0), R(100)),
          HighEmitter |-> Gt(Mul(row.CarbonImpact, carbon), R(500)),
          Scenario |-> s ]

C10_Row(df, i) ==
    [ c \in (Adjusted \cup { "HighEmitter", "Scenario" }) \cap Columns(df) |->
        df.col[c][i] ]

C10_Example ==
    [ CarbonImpact |-> R(500), InterestCoverage |-> R(5), EmissionsTrend |-> R(0),
      SocialScore |-> R(50), GovernanceScore |-> R(80) ]

C10_Transform ==
    /\ AppliedOK =>
          \A i \in Rows(In) :
              C10_Row(Out, i) = C10_Expected(C10_Row(In, i), last.scenario_name)
    /\ C10_Expected(C10_Example, "Transition Stress") =
          [ CarbonImpact |-> R(750), InterestCoverage |-> R(5),
            EmissionsTrend |-> R(10), SocialScore |-> R(50),
            GovernanceScore |-> R(75), HighEmitter |-> TRUE,
            Scenario |-> "Transition Stress" ]

\* the firm of the worked example under 'Transition Stress'
C10_Witness ==
    /\ AppliedOK
    /\ last.scenario_name = "Transition Stress"
    /\ C10_Row(In, 1) = C10_Example
    /\ Out.col["CarbonImpact"][1] = R(750)
    /\ Out.col["InterestCoverage"][1] = R(5)
    /\ Out.col["EmissionsTrend"][1] = R(10)
    /\ Out.col["GovernanceScore"][1] = R(75)
    /\ Out.col["HighEmitter"][1] = TRUE

(***************************************************************************)
(* C11: weight conservation.  The six RISK_WEIGHTS are non-negative and    *)
(* sum to exactly 1; in every frame calculate_risk returns, each           *)
(* contribution column is its weight times its Norm column, the six        *)
(* contributions of a row add up to its RiskScore, and a row whose six     *)
(* Norms all lie in [0,1] has its RiskScore in [0,1].                      *)
(***************************************************************************)
C11_Drivers ==
    << [weight |-> "Debt/Equity", norm |-> "DebtNorm", impact |-> "DebtImpact"],
       [weight |-> "InterestCoverage", norm |-> "InterestNorm",
        impact |-> "InterestImpact"],
       [weight |-> "CarbonImpact", norm |-> "CarbonNorm",
        impact |-> "CarbonImpactScore"],
       [weight |-> "EmissionsTrend", norm |-> "EmTrendNorm",
        impact |-> "EmTrendImpact"],
       [weight |-> "SocialScore", norm |-> "SocialNorm", impact |-> "SocialImpact"],
       [weight |-> "GovernanceScore", norm |-> "GovNorm", impact |-> "GovImpact"] >>

\* the sum of a non-empty sequence of values, left to right
RECURSIVE C11_Total(_)
C11_Total(values) ==
    IF Len(values) = 1 THEN values[1]
    ELSE Add(C11_Total(SubSeq(values, 1, Len(values) - 1)), values[Len(values)])

C11_WeightConservation ==
    /\ DOMAIN RISK_WEIGHTS = { C11_Drivers[k].weight : k \in DOMAIN C11_Drivers }
    /\ \A w \in DOMAIN RISK_WEIGHTS : Ge(RISK_WEIGHTS[w], R(0))
    /\ C11_Total([k \in DOMAIN C11_Drivers |-> RISK_WEIGHTS[C11_Drivers[k].weight]])
          = R(1)
    /\ ScoredOK =>
          \A i \in Rows(Out) :
              /\ \A k \in DOMAIN C11_Drivers :
                    Out.col[C11_Drivers[k].impact][i] =
                        Mul(RISK_WEIGHTS[C11_Drivers[k].weight],
                            Out.col[C11_Drivers[k].norm][i])
              /\ Out.col["RiskScore"][i] =
                    C11_Total([k \in DOMAIN C11_Drivers |->
                                  Out.col[C11_Drivers[k].impact][i]])
              /\ (\A k \in DOMAIN C11_Drivers :
                      Within(Out.col[C11_Drivers[k].norm][i], R(0), R(1)))
                  => Within(Out.col["RiskScore"][i], R(0), R(1))

\* a scored row with every Norm in [0,1], every driver contributing, and a
\* score strictly inside (0,1)
C11_Witness ==
    /\ ScoredOK
    /\ \E i \in Rows(Out) :
          /\ \A k \in DOMAIN C11_Drivers :
                /\ Within(Out.col[C11_Drivers[k].norm][i], R(0), R(1))
                /\ Gt(Out.col[C11_Drivers[k].impact][i], R(0))
          /\ Gt(Out.col["RiskScore"][i], R(0))
          /\ Lt(Out.col["RiskScore"][i], R(1))

(***************************************************************************)
(* C12: normalization range.  In every frame calculate_risk returns, every *)
(* row has EmTrendNorm, SocialNorm and GovNorm in [0,1], and DebtNorm,     *)
(* InterestNorm and CarbonNorm in [0,1] unless the batch maximum the       *)
(* column was divided by (of Debt/Equity, of 1/InterestCoverage, of        *)
(* CarbonImpact) is 0.                                                     *)
(***************************************************************************)
C12_NormRange ==
    ScoredOK =>
        \A i \in Rows(Out) :
            /\ Within(Out.col["EmTrendNorm"][i], R(0), R(1))
            /\ Within(Out.col["SocialNorm"][i], R(0), R(1))
            /\ Within(Out.col["GovNorm"][i], R(0), R(1))
            /\ \/ SeriesMax(In.col["Debt/Equity"]) = R(0)
               \/ Within(Out.col["DebtNorm"][i], R(0), R(1))
            /\ \/ SeriesMax(RDivSeries(R(1), In.col["InterestCoverage"])) = R(0)
               \/ Within(Out.col["InterestNorm"][i], R(0), R(1))
            /\ \/ SeriesMax(In.col["CarbonImpact"]) = R(0)
               \/ Within(Out.col["CarbonNorm"][i], R(0), R(1))

(***************************************************************************)
(* C13: the contract of estimate_capital.  C13_Original: the call fails    *)
(* with the missing-column error when the frame has no TotalAssets column, *)
(* and otherwise returns, row by row, RiskScore x TotalAssets x 0.5; the   *)
(* frame is left as it was.  C13_CapitalContract: the same, except that a  *)
(* frame with TotalAssets but without RiskScore makes the call fail with a *)
(* KeyError naming RiskScore.                                              *)
(***************************************************************************)
CapitalCalled == last.op = "estimate_capital"

C13_MissingAssets ==
    /\ ret.kind = "error"
    /\ ret.error[1].type = "ValueError"
    /\ ret.error[1].prefix = "Missing "
    /\ ret.error[1].names = << "TotalAssets" >>

C13_Capital ==
    /\ ret.kind = "series"
    /\ DOMAIN ret.series = Rows(In)
    /\ \A i \in Rows(In) :
          ret.series[i] =
              Div(Mul(In.col["RiskScore"][i], In.col["TotalAssets"][i]), R(2))

C13_Original ==
    CapitalCalled =>
        /\ base = In
        /\ IF "TotalAssets" \notin Columns(In) THEN C13_MissingAssets
           ELSE C13_Capital

C13_CapitalContract ==
    CapitalCalled =>
        /\ base = In
        /\ IF "TotalAssets" \notin Columns(In) THEN C13_MissingAssets
           ELSE IF "RiskScore" \notin Columns(In)
           THEN /\ ret.kind = "error"
                /\ ret.error[1].type = "KeyError"
                /\ ret.error[1].names = << "RiskScore" >>
           ELSE C13_Capital

\* a scored frame with a row of positive score and assets, hence a positive
\* capital
C13_Witness ==
    /\ CapitalCalled
    /\ ret.kind = "series"
    /\ \E i \in Rows(In) :
          /\ Gt(In.col["RiskScore"][i], R(0))
          /\ Gt(In.col["TotalAssets"][i], R(0))
          /\ Gt(ret.series[i], R(0))

(***************************************************************************)
(* C14: capital monotonicity.  Of two rows of a frame estimate_capital     *)
(* accepted that have the same TotalAssets, the one with the strictly      *)
(* greater RiskScore gets the strictly greater capital.                    *)
(***************************************************************************)
C14_CapitalMonotone ==
    (CapitalCalled /\ ret.kind = "series") =>
        \A i, j \in Rows(In) :
            (/\ In.col["TotalAssets"][i] = In.col["TotalAssets"][j]
             /\ Lt(In.col["RiskScore"][i], In.col["RiskScore"][j]))
            => Gt(ret.series[j], ret.series[i])

(***************************************************************************)
(* C15: a zero or negative InterestCoverage is handled.  Whenever          *)
(* calculate_risk returns a frame for a batch in which some row has        *)
(* InterestCoverage <= 0 (it may reject the batch instead), every          *)
(* InterestNorm and every RiskScore of that frame is a finite number and   *)
(* no InterestNorm is negative.                                            *)
(***************************************************************************)
Finite(x) == x.d # 0

C15_CoverageHandled ==
    (/\ ScoredOK
     /\ \E i \in Rows(In) : Le(In.col["InterestCoverage"][i], R(0)))
    => \A i \in Rows(Out) :
          /\ Finite(Out.col["InterestNorm"][i])
          /\ Finite(Out.col["RiskScore"][i])
          /\ Ge(Out.col["InterestNorm"][i], R(0))

(***************************************************************************)
(* C16: batch-relative normalization is per invocation.  In the frame      *)
(* calculate_risk returns, each of DebtNorm, InterestNorm and CarbonNorm   *)
(* is the row's Debt/Equity, 1/InterestCoverage or CarbonImpact divided by *)
(* the greatest such value among the rows of the batch passed to the call, *)
(* whenever that maximum is a positive number; a row attaining the maximum *)
(* then has Norm 1.  And two frames with the same rows in the scored input *)
(* columns carry the same scores, whichever calls scored them and whatever *)
(* was scored in between.                                                  *)
(***************************************************************************)
C16_Bases ==
    << [input |-> "Debt/Equity", norm |-> "DebtNorm"],
       [input |-> "InterestCoverage", norm |-> "InterestNorm"],
       [input |-> "CarbonImpact", norm |-> "CarbonNorm"] >>

\* the quantity of row i of df that driver k is normalized from
C16_Quantity(df, k, i) ==
    IF C16_Bases[k].input = "InterestCoverage"
    THEN Div(R(1), df.col["InterestCoverage"][i])
    ELSE df.col[C16_Bases[k].input][i]

\* m is the greatest quantity of driver k among the rows of df
C16_IsBatchMax(df, k, m) ==
    /\ \E i \in Rows(df) : C16_Quantity(df, k, i) = m
    /\ \A i \in Rows(df) : Ge(m, C16_Quantity(df, k, i))

C16_ScoreColumns ==
    { "DebtNorm", "InterestNorm", "CarbonNorm", "EmTrendNorm", "SocialNorm",
      "GovNorm", "RiskScore", "RiskLevel" }

\* both of the caller's frames are scored and agree on the scored inputs
C16_SameBatch ==
    /\ scenario_df # << >>
    /\ C16_ScoreColumns \subseteq Columns(base)
    /\ C16_ScoreColumns \subseteq Columns(scenario_df[1])
    /\ \A k \in DOMAIN RiskNeeded :
          base.col[RiskNeeded[k]] = scenario_df[1].col[RiskNeeded[k]]

C16_PerInvocation ==
    /\ ScoredOK =>
          \A k \in DOMAIN C16_Bases :
              \A i \in Rows(In) :
                  LET m == C16_Quantity(In, k, i) IN
                  (C16_IsBatchMax(In, k, m) /\ Finite(m) /\ Gt(m, R(0))) =>
                      /\ Out.col[C16_Bases[k].norm][i] = R(1)
                      /\ \A j \in Rows(In) :
                            Out.col[C16_Bases[k].norm][j] =
                                Div(C16_Quantity(In, k, j), m)
    /\ C16_SameBatch =>
          \A c \in C16_ScoreColumns : base.col[c] = scenario_df[1].col[c]

\* the loaded batch is scored for the first time, after its 'Normal' copy
\* (the same rows, two of them, one below its batch maxima) was scored by
\* an earlier call
C16_Witness ==
    /\ ScoredOK
    /\ last.target = "base"
    /\ "RiskScore" \notin Columns(In)
    /\ C16_SameBatch
    /\ \E i \in Rows(Out) :
          /\ Lt(Out.col["DebtNorm"][i], R(1))
          /\ Gt(Out.col["InterestNorm"][i], R(0))
          /\ Lt(Out.col["InterestNorm"][i], R(1))
          /\ Lt(Out.col["CarbonNorm"][i], R(1))

(***************************************************************************)
(* C17: the dashboard leaves the loaded dataset alone.  Every run of the   *)
(* dashboard's processing leaves base with the columns and values it had   *)
(* (the columns of the input record, no derived column), computes the      *)
(* same 'Normal' baseline as the run before it, and, when the selected     *)
(* scenario is 'Normal', ends with RiskChange 0 in every row.              *)
(***************************************************************************)
\* the last run of the dashboard went through
DashboardOK == last.op = "dashboard" /\ ret.kind = "series"

NormalRisk == normal_risk[1]

RiskDf == scenario_df[1]

C17_BaseUnchanged ==
    [][ last'.op = "dashboard" =>
          /\ base' = base
          /\ Columns(base') \subseteq RecordColumns
          /\ normal_risk # << >> => normal_risk' = normal_risk
          /\ (DashboardOK' /\ last'.scenario_name = "Normal") =>
                \A i \in Rows(RiskDf') : RiskDf'.col["RiskChange"][i] = R(0)
      ]_vars

(***************************************************************************)
(* C18: uniform multipliers cancel.  After a run of the dashboard on a     *)
(* batch with every InterestCoverage > 0 and a positive greatest           *)
(* CarbonImpact, the frame scored for the selected scenario has, row by    *)
(* row, the CarbonNorm, InterestNorm, CarbonImpactScore and InterestImpact *)
(* of the frame scored for 'Normal', and its RiskScore differs from the    *)
(* 'Normal' one exactly by the change of the EmissionsTrend, SocialScore   *)
(* and GovernanceScore contributions.                                      *)
(***************************************************************************)
CoveragePositive(df) ==
    \A i \in Rows(df) : Gt(df.col["InterestCoverage"][i], R(0))

\* the greatest value of column c is positive
MaxPositive(df, c) == \E i \in Rows(df) : Gt(df.col[c][i], R(0))

\* the sum of the three contributions a scenario's shifts act on
ShiftedImpacts(df, i) ==
    Add(Add(df.col["EmTrendImpact"][i], df.col["SocialImpact"][i]),
        df.col["GovImpact"][i])

C19_Unclamped(df) ==
    \A i \in Rows(df) :
        /\ Within(df.col["SocialScore"][i], R(10), R(100))
        /\ Within(df.col["EmissionsTrend"][i], R(-45), R(50))
        /\ Within(df.col["GovernanceScore"][i], R(0), R(100))

=============================================================================
